---- MODULE Spec2Model ----
(***************************************************************************)
(* Model of the symbols-graph builder (src/src/main.rs).                   *)
(*                                                                         *)
(* A name is a sequence of one-character strings.  A canonical id is the   *)
(* 0-based position of a canonical string in the string interner.  The     *)
(* maps of struct Graph are functions whose DOMAIN is the key set; a Vec   *)
(* is a sequence.                                                          *)
(***************************************************************************)
EXTENDS Integers, Sequences, FiniteSets, TLC

\* ------------------------------------------------------------------ bounds

\* Number of input items of a run: the files given on the command line plus
\* the symbol records (exports and imports) decoded from them.
MaxInputs == 6

\* Number of input items of a run that also draws inputs the program skips
\* or fails on.
MaxFaultInputs == 5

\* Length of the names handed to the sanitizer on its own.
MaxNameLen == 4

\* ------------------------------------------------------------------ inputs

\* A byte that makes str::from_utf8 fail.
InvalidByte == "0xFF"

\* Input files, before their symbol records are decoded: the decodable files
\* "a", "b.o" (canonical "b") and "d/c" (canonical "c").
InputFiles ==
    { [ path |-> <<"a">>, status |-> "ok" ],
      [ path |-> <<"b", ".", "o">>, status |-> "ok" ],
      [ path |-> <<"d", "/", "c">>, status |-> "ok" ] }

\* Symbol names: "x" and "b", the canonical string of the path "b.o".
SymbolNames == { <<"x">>, <<"b">> }

\* Input files the program does not ingest: "_u" (decodable, a name the
\* sanitizer rejects), "e" (no object file) and "f" (cannot be opened).
FaultyFiles ==
    { [ path |-> <<"_", "u">>, status |-> "ok" ],
      [ path |-> <<"e">>, status |-> "undecodable" ],
      [ path |-> <<"f">>, status |-> "unreadable" ] }

\* Symbol names the program does not accept: "_r" (reserved prefix) and a name
\* that is not valid UTF-8.
FaultyNames == { <<"_", "r">>, <<InvalidByte>> }

\* ------------------------------------------------------------ map helpers

Range(s) == { s[i] : i \in DOMAIN s }

\* HashMap::insert
Put(m, k, v) == [ x \in (DOMAIN m) \cup {k} |-> IF x = k THEN v ELSE m[x] ]

\* HashMap::remove_entry
Remove(m, k) == [ x \in (DOMAIN m) \ {k} |-> m[x] ]

EmptyMap == [ x \in {} |-> <<>> ]

\* ------------------------------------------------------------- sanitizer

None == [ some |-> FALSE ]
Some(s) == [ some |-> TRUE, v |-> s ]

starts_with(v, p) == Len(v) >= Len(p) /\ SubSeq(v, 1, Len(p)) = p

ends_with(v, p) == Len(v) >= Len(p) /\ SubSeq(v, Len(v) - Len(p) + 1, Len(v)) = p

\* v.rfind(c): the 0-based index of the last c, or -1 when there is none.
rfind(v, c) ==
    IF \E i \in 1..Len(v) : v[i] = c
    THEN (CHOOSE i \in 1..Len(v) : v[i] = c /\ \A j \in (i+1)..Len(v) : v[j] # c) - 1
    ELSE -1

GLOBAL_OFFSET_TABLE ==
    << "_", "G", "L", "O", "B", "A", "L", "_", "O", "F", "F", "S", "E", "T", "_",
       "T", "A", "B", "L", "E", "_" >>

translate(c) == IF c = "-" \/ c = "." THEN "_" ELSE c

\* The sanitizer with the basename taken first and the rejection rules applied
\* to it.
mangle_basename_first(v) ==
    LET dot == IF ends_with(v, <<".", "o">>) THEN Len(v) - 2 ELSE Len(v)
        slash == IF rfind(v, "/") >= 0 THEN rfind(v, "/") + 1 ELSE 0
        cut == SubSeq(v, slash + 1, dot)
    IN IF cut = GLOBAL_OFFSET_TABLE \/ cut = <<>> THEN None
       ELSE IF starts_with(cut, <<".", "L", "C">>) THEN None
       ELSE IF starts_with(cut, <<"_">>) THEN None
       ELSE Some([ i \in 1..Len(cut) |-> translate(cut[i]) ])

\* The sanitizer with find in place of rfind: the name is cut after the first
\* '/'.
mangle_first_slash(v) ==
    IF v = GLOBAL_OFFSET_TABLE \/ v = <<>> THEN None
    ELSE IF starts_with(v, <<".", "L", "C">>) THEN None
    ELSE IF starts_with(v, <<"_">>) THEN None
    ELSE LET dot == IF ends_with(v, <<".", "o">>) THEN Len(v) - 2 ELSE Len(v)
             slash == IF \E i \in 1..Len(v) : v[i] = "/"
                      THEN CHOOSE i \in 1..Len(v) :
                               v[i] = "/" /\ \A j \in 1..(i - 1) : v[j] # "/"
                      ELSE 0
             cut == SubSeq(v, slash + 1, dot)
         IN Some([ i \in 1..Len(cut) |-> translate(cut[i]) ])

mangle_as_valid_dot_name(v) ==
    IF v = GLOBAL_OFFSET_TABLE \/ v = <<>> THEN None
    ELSE IF starts_with(v, <<".", "L", "C">>) THEN None
    ELSE IF starts_with(v, <<"_">>) THEN None
    ELSE LET dot == IF ends_with(v, <<".", "o">>) THEN Len(v) - 2 ELSE Len(v)
             slash == IF rfind(v, "/") >= 0 THEN rfind(v, "/") + 1 ELSE 0
             cut == SubSeq(v, slash + 1, dot)
         IN Some([ i \in 1..Len(cut) |-> translate(cut[i]) ])

\* str::from_utf8
from_utf8(bytes) ==
    IF \E i \in 1..Len(bytes) : bytes[i] = InvalidByte THEN None ELSE Some(bytes)

\* ---------------------------------------------------------- string table

\* StringInterner::get_or_intern: the id of s, and the table holding s.
get_or_intern(strs, s) ==
    IF \E i \in 1..Len(strs) : strs[i] = s
    THEN [ strings |-> strs, id |-> (CHOOSE i \in 1..Len(strs) : strs[i] = s) - 1 ]
    ELSE [ strings |-> Append(strs, s), id |-> Len(strs) ]

\* StringInterner::resolve
resolve(strs, id) == strs[id + 1]

\* ------------------------------------------------------------------ graph

\* Graph::new: the maps of a fresh graph.
NewGraph ==
    [ nodes |-> EmptyMap, edges |-> EmptyMap, strings |-> <<>>,
      undefined |-> EmptyMap, defined |-> EmptyMap ]

\* The loop "for lib in libs.iter()" of insert_exported and insert_imported:
\* for each edge key in turn, push the symbol on the existing edge or insert
\* the edge with that one symbol.
RECURSIVE push_edges(_, _, _)
push_edges(edges, keys, symbol_name) ==
    IF keys = <<>> THEN edges
    ELSE LET edge == Head(keys)
             next == IF edge \in DOMAIN edges
                     THEN [ edges EXCEPT ![edge] = Append(@, symbol_name) ]
                     ELSE Put(edges, edge, <<symbol_name>>)
         IN push_edges(next, Tail(keys), symbol_name)

\* "store for later resolution": the lookup is keyed by the file id.
store_defined(defined, filename, symbol_name) ==
    IF filename \in DOMAIN defined
    THEN [ defined EXCEPT ![filename] = Append(@, filename) ]
    ELSE Put(defined, symbol_name, <<filename>>)

\* cleanup_undefined with the waiting files dropped unlinked: the entry is
\* removed and no edge is pushed.
cleanup_undefined_unlinked(g, filename, symbol_name) ==
    IF symbol_name \in DOMAIN g.undefined
    THEN [ g EXCEPT !.undefined = Remove(g.undefined, symbol_name) ]
    ELSE g

\* "cleanup undefined if needed": the graph without the undefined entry of the
\* symbol, every file that waited for it linked to the defining file.
cleanup_undefined(g, filename, symbol_name) ==
    IF symbol_name \in DOMAIN g.undefined
    THEN LET libs == g.undefined[symbol_name]
         IN [ g EXCEPT !.undefined = Remove(g.undefined, symbol_name),
                       !.edges = push_edges(g.edges,
                                            [ i \in 1..Len(libs) |-> <<libs[i], filename>> ],
                                            symbol_name) ]
    ELSE g

\* insert_exported with the name interned before the sanitizer is asked: a
\* rejected name is left in the string table.
insert_exported_interned_first(g, properties, filename, exported_symbol) ==
    LET text == from_utf8(exported_symbol)
    IN IF ~text.some
       THEN [ g |-> g, properties |-> properties, panicked |-> TRUE ]
       ELSE LET mangled == mangle_as_valid_dot_name(text.v)
            IN IF ~mangled.some
               THEN [ g |-> [ g EXCEPT !.strings = get_or_intern(g.strings, text.v).strings ],
                      properties |-> properties, panicked |-> FALSE ]
               ELSE LET interned == get_or_intern(g.strings, mangled.v)
                        symbol_name == interned.id
                        stored == [ g EXCEPT !.strings = interned.strings,
                                             !.defined = store_defined(g.defined, filename,
                                                                       symbol_name) ]
                    IN [ g |-> cleanup_undefined(stored, filename, symbol_name),
                         properties |-> Append(properties, symbol_name),
                         panicked |-> FALSE ]

\* Graph::insert_exported.  The result holds the graph, the node properties
\* under construction and whether the call panicked (from_utf8(..).unwrap()).
insert_exported(g, properties, filename, exported_symbol) ==
    LET text == from_utf8(exported_symbol)
    IN IF ~text.some
       THEN [ g |-> g, properties |-> properties, panicked |-> TRUE ]
       ELSE LET mangled == mangle_as_valid_dot_name(text.v)
            IN IF ~mangled.some
               THEN [ g |-> g, properties |-> properties, panicked |-> FALSE ]
               ELSE LET interned == get_or_intern(g.strings, mangled.v)
                        symbol_name == interned.id
                        stored == [ g EXCEPT !.strings = interned.strings,
                                             !.defined = store_defined(g.defined, filename,
                                                                       symbol_name) ]
                    IN [ g |-> cleanup_undefined(stored, filename, symbol_name),
                         properties |-> Append(properties, symbol_name),
                         panicked |-> FALSE ]

\* "lookup on existing libs": resolve against the defined map or queue the
\* file in the undefined map.
lookup_defined(g, filename, symbol_name) ==
    IF symbol_name \in DOMAIN g.defined
    THEN LET libs == g.defined[symbol_name]
         IN [ g EXCEPT !.edges = push_edges(g.edges,
                                            [ i \in 1..Len(libs) |-> <<filename, libs[i]>> ],
                                            symbol_name) ]
    ELSE IF symbol_name \in DOMAIN g.undefined
         THEN [ g EXCEPT !.undefined[symbol_name] = Append(@, filename) ]
         ELSE [ g EXCEPT !.undefined = Put(g.undefined, symbol_name, <<filename>>) ]

\* Graph::insert_imported.
insert_imported(g, properties, filename, imported_symbol) ==
    LET text == from_utf8(imported_symbol)
    IN IF ~text.some
       THEN [ g |-> g, properties |-> properties, panicked |-> TRUE ]
       ELSE LET mangled == mangle_as_valid_dot_name(text.v)
            IN IF ~mangled.some
               THEN [ g |-> g, properties |-> properties, panicked |-> FALSE ]
               ELSE LET interned == get_or_intern(g.strings, mangled.v)
                    IN [ g |-> lookup_defined([ g EXCEPT !.strings = interned.strings ],
                                              filename, interned.id),
                         properties |-> properties,
                         panicked |-> FALSE ]

\* merge with the edge map cleared instead of each edge's symbols.
merge_edges_cleared(g) == [ g EXCEPT !.edges = EmptyMap ]

\* merge with pop in place of clear: every edge loses its last symbol.
merge_last_popped(g) ==
    [ g EXCEPT !.edges = [ e \in DOMAIN g.edges |->
                             IF g.edges[e] = <<>> THEN <<>>
                             ELSE SubSeq(g.edges[e], 1, Len(g.edges[e]) - 1) ] ]

\* Graph::merge: every edge keeps its key and loses its symbols.
merge(g) == [ g EXCEPT !.edges = [ e \in DOMAIN g.edges |-> <<>> ] ]

\* The loop over object_file.exports(): insert_exported for each symbol in
\* turn; a panic ends the run, so the remaining symbols are not processed.
RECURSIVE exports_loop(_, _, _)
exports_loop(r, filename, symbols) ==
    IF r.panicked \/ symbols = <<>> THEN r
    ELSE exports_loop(insert_exported(r.g, r.properties, filename, Head(symbols)),
                      filename, Tail(symbols))

\* The loop over object_file.imports().
RECURSIVE imports_loop(_, _, _)
imports_loop(r, filename, symbols) ==
    IF r.panicked \/ symbols = <<>> THEN r
    ELSE imports_loop(insert_imported(r.g, r.properties, filename, Head(symbols)),
                      filename, Tail(symbols))

\* Graph::parse_binary on one input file.  A file is
\*   [ path, status, exports, imports ]
\* with status "unreadable" (open or mmap fails: panic), "undecodable"
\* (object::File::parse fails: return) or "ok".
parse_binary(g, file) ==
    IF file.status = "unreadable" THEN [ g |-> g, panicked |-> TRUE ]
    ELSE IF file.status = "undecodable" THEN [ g |-> g, panicked |-> FALSE ]
    ELSE LET mangled == mangle_as_valid_dot_name(file.path)
         IN IF ~mangled.some THEN [ g |-> g, panicked |-> FALSE ]
            ELSE LET interned == get_or_intern(g.strings, mangled.v)
                     filename == interned.id
                     start == [ g |-> [ g EXCEPT !.strings = interned.strings ],
                                properties |-> <<>>, panicked |-> FALSE ]
                     exported == exports_loop(start, filename, file.exports)
                     imported == imports_loop(exported, filename, file.imports)
                 IN IF imported.panicked
                    THEN [ g |-> imported.g, panicked |-> TRUE ]
                    ELSE [ g |-> [ imported.g EXCEPT
                                     !.nodes = Put(imported.g.nodes, filename,
                                                   imported.properties) ],
                           panicked |-> FALSE ]

\* The loop "for f in files" of main.
RECURSIVE parse_files(_, _)
parse_files(r, files) ==
    IF r.panicked \/ files = <<>> THEN r
    ELSE parse_files(parse_binary(r.g, Head(files)), Tail(files))

\* ------------------------------------------------------------- serializer

\* The number of entries of a sequence equal to v.
Count(seq, v) == Cardinality({ i \in DOMAIN seq : seq[i] = v })

\* "    n{} [label=\"{}\"]": a node declaration.
node_line(strs, idx) == [ n |-> idx, label |-> resolve(strs, idx) ]

\* "    n{} -> n{}": an edge line without a label.
edge_line(n1, n2) == [ n1 |-> n1, n2 |-> n2, labelled |-> FALSE, label |-> <<>> ]

\* "    n{} -> n{} [label=\"{}\"]": an edge line with the name of a symbol.
labelled_edge_line(strs, n1, n2, symbol) ==
    [ n1 |-> n1, n2 |-> n2, labelled |-> TRUE, label |-> resolve(strs, symbol) ]

\* The lines the edge loop of fmt writes for one edge, in the order written.
lines_of_edge(g, e) ==
    IF Len(g.edges[e]) = 0
    THEN << edge_line(e[1], e[2]) >>
    ELSE [ i \in 1..Len(g.edges[e]) |->
             labelled_edge_line(g.strings, e[1], e[2], g.edges[e][i]) ]

\* The edge loop with the labels of an edge gathered in a set: a symbol that
\* is on an edge twice is written once.
edge_lines_distinct(g) ==
    LET lines == UNION { Range(lines_of_edge(g, e)) : e \in DOMAIN g.edges }
    IN [ l \in lines |-> 1 ]

\* The edge loop of fmt.  The map is walked in no specified order, so the
\* lines are kept as a bag: each line with the number of times it is written.
edge_lines(g) ==
    LET lines == UNION { Range(lines_of_edge(g, e)) : e \in DOMAIN g.edges }
    IN [ l \in lines |-> Count(lines_of_edge(g, <<l.n1, l.n2>>), l) ]

\* impl Display for Graph: the header, the node declarations, the edge lines
\* (a bag) and the closing brace.  Graph.clusters is never filled, so the
\* cluster loop writes nothing.
fmt(g) ==
    [ written |-> TRUE,
      header |-> << "digraph", "", "{" >>,
      nodes |-> { node_line(g.strings, idx) : idx \in DOMAIN g.nodes },
      edges |-> edge_lines(g),
      footer |-> "}" ]

\* Nothing has been written to the output.
NoOutput == [ written |-> FALSE ]

\* ------------------------------------------------------------------ state

VARIABLES
    nodes,       \* Graph.nodes: file id -> defined symbol ids
    edges,       \* Graph.edges: <<consumer id, provider id>> -> symbol ids
    strings,     \* Graph.strings: the interned canonical strings, id = index - 1
    undefined,   \* Graph.undefined: symbol id -> file ids waiting for it
    defined,     \* Graph.defined: symbol id -> file ids
    pc,          \* where main is: "main", "exports", "imports", "write", "done",
                 \* "panicked"
    filename,    \* parse_binary: the id of the file being parsed
    properties,  \* parse_binary: the NodeProperties symbols of that file
    output,      \* what main has written to the writer
    name,        \* a raw name handed to the sanitizer on its own
    result,      \* what the sanitizer returned for it
    ninputs,     \* input files opened and symbol records decoded so far
    input,       \* history: the files given so far, with the records decoded
    events,      \* history: the accepted records <<file id, "D" or "U", symbol id>>
    last         \* history: the last step on the graph, with the state it started from

vars == << nodes, edges, strings, undefined, defined, pc, filename, properties,
           output, name, result, ninputs, input, events, last >>

\* The graph held by the state.
G == [ nodes |-> nodes, edges |-> edges, strings |-> strings,
       undefined |-> undefined, defined |-> defined ]

SetGraph(g) ==
    /\ nodes' = g.nodes
    /\ edges' = g.edges
    /\ strings' = g.strings
    /\ undefined' = g.undefined
    /\ defined' = g.defined

Pre == [ g |-> G, properties |-> properties ]

\* The canonical id an accepted record's name gets, -1 for a record that is
\* not valid text or that the sanitizer rejects.
SymbolId(strs, bytes) ==
    IF ~from_utf8(bytes).some THEN -1
    ELSE IF ~mangle_as_valid_dot_name(bytes).some THEN -1
    ELSE get_or_intern(strs, mangle_as_valid_dot_name(bytes).v).id

Init ==
    /\ nodes = NewGraph.nodes
    /\ edges = NewGraph.edges
    /\ strings = NewGraph.strings
    /\ undefined = NewGraph.undefined
    /\ defined = NewGraph.defined
    /\ pc = "main"
    /\ filename = -1
    /\ properties = <<>>
    /\ output = NoOutput
    /\ name = <<>>
    /\ result = None
    /\ ninputs = 0
    /\ input = <<>>
    /\ events = <<>>
    /\ last = [ op |-> "new", file |-> -1, sym |-> -1, pre |-> Pre ]

\* OpenFile with the file name sanitized and interned before the file is
\* decoded: the name of an undecodable file is left in the string table.
OpenFile_named_first(path, status) ==
    /\ pc = "main"
    /\ ninputs < MaxInputs
    /\ ninputs' = ninputs + 1
    /\ input' = Append(input, [ path |-> path, status |-> status,
                                exports |-> <<>>, imports |-> <<>> ])
    /\ UNCHANGED << nodes, edges, undefined, defined, events, output, name, result >>
    /\ LET mangled == mangle_as_valid_dot_name(path)
           interned == get_or_intern(strings, mangled.v)
       IN IF status = "unreadable"
          THEN /\ pc' = "panicked"
               /\ last' = [ op |-> "unreadable", file |-> -1, sym |-> -1, pre |-> Pre ]
               /\ UNCHANGED << strings, filename, properties >>
          ELSE IF status = "undecodable"
          THEN /\ pc' = "main"
               /\ last' = [ op |-> "undecodable", file |-> -1, sym |-> -1, pre |-> Pre ]
               /\ strings' = IF mangled.some THEN interned.strings ELSE strings
               /\ UNCHANGED << filename, properties >>
          ELSE IF ~mangled.some
          THEN /\ pc' = "main"
               /\ last' = [ op |-> "rejected", file |-> -1, sym |-> -1, pre |-> Pre ]
               /\ UNCHANGED << strings, filename, properties >>
          ELSE /\ pc' = "exports"
               /\ strings' = interned.strings
               /\ filename' = interned.id
               /\ properties' = <<>>
               /\ last' = [ op |-> "open", file |-> interned.id, sym |-> -1, pre |-> Pre ]

\* OpenFile with a path that cannot be opened reported and skipped like an
\* undecodable file.
OpenFile_unreadable_skipped(path, status) ==
    /\ pc = "main"
    /\ ninputs < MaxInputs
    /\ ninputs' = ninputs + 1
    /\ input' = Append(input, [ path |-> path, status |-> status,
                                exports |-> <<>>, imports |-> <<>> ])
    /\ UNCHANGED << nodes, edges, undefined, defined, events, output, name, result >>
    /\ LET mangled == mangle_as_valid_dot_name(path)
           interned == get_or_intern(strings, mangled.v)
       IN IF status = "unreadable"
          THEN /\ pc' = "main"
               /\ last' = [ op |-> "unreadable", file |-> -1, sym |-> -1, pre |-> Pre ]
               /\ UNCHANGED << strings, filename, properties >>
          ELSE IF status = "undecodable"
          THEN /\ pc' = "main"
               /\ last' = [ op |-> "undecodable", file |-> -1, sym |-> -1, pre |-> Pre ]
               /\ UNCHANGED << strings, filename, properties >>
          ELSE IF ~mangled.some
          THEN /\ pc' = "main"
               /\ last' = [ op |-> "rejected", file |-> -1, sym |-> -1, pre |-> Pre ]
               /\ UNCHANGED << strings, filename, properties >>
          ELSE /\ pc' = "exports"
               /\ strings' = interned.strings
               /\ filename' = interned.id
               /\ properties' = <<>>
               /\ last' = [ op |-> "open", file |-> interned.id, sym |-> -1, pre |-> Pre ]

\* main takes the next path; parse_binary up to the first symbol loop.
OpenFile(path, status) ==
    /\ pc = "main"
    /\ ninputs < MaxInputs
    /\ ninputs' = ninputs + 1
    /\ input' = Append(input, [ path |-> path, status |-> status,
                                exports |-> <<>>, imports |-> <<>> ])
    /\ UNCHANGED << nodes, edges, undefined, defined, events, output, name, result >>
    /\ LET mangled == mangle_as_valid_dot_name(path)
           interned == get_or_intern(strings, mangled.v)
       IN IF status = "unreadable"
          THEN /\ pc' = "panicked"
               /\ last' = [ op |-> "unreadable", file |-> -1, sym |-> -1, pre |-> Pre ]
               /\ UNCHANGED << strings, filename, properties >>
          ELSE IF status = "undecodable"
          THEN /\ pc' = "main"
               /\ last' = [ op |-> "undecodable", file |-> -1, sym |-> -1, pre |-> Pre ]
               /\ UNCHANGED << strings, filename, properties >>
          ELSE IF ~mangled.some
          THEN /\ pc' = "main"
               /\ last' = [ op |-> "rejected", file |-> -1, sym |-> -1, pre |-> Pre ]
               /\ UNCHANGED << strings, filename, properties >>
          ELSE /\ pc' = "exports"
               /\ strings' = interned.strings
               /\ filename' = interned.id
               /\ properties' = <<>>
               /\ last' = [ op |-> "open", file |-> interned.id, sym |-> -1, pre |-> Pre ]

\* One iteration of the exports loop of parse_binary.
ExportSymbol(bytes) ==
    /\ pc = "exports"
    /\ ninputs < MaxInputs
    /\ ninputs' = ninputs + 1
    /\ input' = [ input EXCEPT ![Len(input)].exports = Append(@, bytes) ]
    /\ LET r == insert_exported(G, properties, filename, bytes)
           sym == SymbolId(strings, bytes)
       IN /\ SetGraph(r.g)
          /\ properties' = r.properties
          /\ pc' = IF r.panicked THEN "panicked" ELSE "exports"
          /\ events' = IF sym = -1 THEN events ELSE Append(events, <<filename, "D", sym>>)
          /\ last' = [ op |-> "exported", file |-> filename, sym |-> sym, pre |-> Pre ]
    /\ UNCHANGED << filename, output, name, result >>

\* The exports loop ends.
ExportsDone ==
    /\ pc = "exports"
    /\ pc' = "imports"
    /\ UNCHANGED << nodes, edges, strings, undefined, defined, filename, properties,
                    output, name, result, ninputs, input, events, last >>

\* One iteration of the imports loop of parse_binary.
ImportSymbol(bytes) ==
    /\ pc = "imports"
    /\ ninputs < MaxInputs
    /\ ninputs' = ninputs + 1
    /\ input' = [ input EXCEPT ![Len(input)].imports = Append(@, bytes) ]
    /\ LET r == insert_imported(G, properties, filename, bytes)
           sym == SymbolId(strings, bytes)
       IN /\ SetGraph(r.g)
          /\ properties' = r.properties
          /\ pc' = IF r.panicked THEN "panicked" ELSE "imports"
          /\ events' = IF sym = -1 THEN events ELSE Append(events, <<filename, "U", sym>>)
          /\ last' = [ op |-> "imported", file |-> filename, sym |-> sym, pre |-> Pre ]
    /\ UNCHANGED << filename, output, name, result >>

\* CloseFile with the node kept only for a file that defines a symbol.
CloseFile_symbols_only ==
    /\ pc = "imports"
    /\ pc' = "main"
    /\ nodes' = IF properties = <<>> THEN nodes ELSE Put(nodes, filename, properties)
    /\ last' = [ op |-> "close", file |-> filename, sym |-> -1, pre |-> Pre ]
    /\ UNCHANGED << edges, strings, undefined, defined, filename, properties,
                    output, name, result, ninputs, input, events >>

\* The imports loop ends: parse_binary inserts the node and returns.
CloseFile ==
    /\ pc = "imports"
    /\ pc' = "main"
    /\ nodes' = Put(nodes, filename, properties)
    /\ last' = [ op |-> "close", file |-> filename, sym |-> -1, pre |-> Pre ]
    /\ UNCHANGED << edges, strings, undefined, defined, filename, properties,
                    output, name, result, ninputs, input, events >>

\* main after the last file, with the merge flag set.
Merge ==
    /\ pc = "main"
    /\ input # <<>>
    /\ pc' = "write"
    /\ SetGraph(merge(G))
    /\ last' = [ op |-> "merge", file |-> -1, sym |-> -1, pre |-> Pre ]
    /\ UNCHANGED << filename, properties, output, name, result, ninputs, input, events >>

\* main after the last file, without the merge flag.
NoMerge ==
    /\ pc = "main"
    /\ input # <<>>
    /\ pc' = "write"
    /\ last' = [ op |-> "nomerge", file |-> -1, sym |-> -1, pre |-> Pre ]
    /\ UNCHANGED << nodes, edges, strings, undefined, defined, filename, properties,
                    output, name, result, ninputs, input, events >>

\* main writes the graph to the writer.
Write ==
    /\ pc = "write"
    /\ pc' = "done"
    /\ output' = fmt(G)
    /\ UNCHANGED << nodes, edges, strings, undefined, defined, filename, properties,
                    name, result, ninputs, input, events, last >>

Next ==
    \/ \E file \in InputFiles : OpenFile(file.path, file.status)
    \/ \E bytes \in SymbolNames : ExportSymbol(bytes)
    \/ ExportsDone
    \/ \E bytes \in SymbolNames : ImportSymbol(bytes)
    \/ CloseFile
    \/ Merge
    \/ NoMerge
    \/ Write

Spec == Init /\ [][Next]_vars

\* The run of main over inputs that include the faulty files and names.
NextFaults ==
    \/ /\ ninputs < MaxFaultInputs
       /\ \E file \in InputFiles \cup FaultyFiles : OpenFile(file.path, file.status)
    \/ /\ ninputs < MaxFaultInputs
       /\ \E bytes \in SymbolNames \cup FaultyNames : ExportSymbol(bytes)
    \/ ExportsDone
    \/ /\ ninputs < MaxFaultInputs
       /\ \E bytes \in SymbolNames \cup FaultyNames : ImportSymbol(bytes)
    \/ CloseFile
    \/ Merge
    \/ NoMerge
    \/ Write

SpecFaults == Init /\ [][NextFaults]_vars

\* The characters of the names handed to the sanitizer on its own.
NameChars == { "_", ".", "L", "C", "o", "/", "-", "a" }

UsrLibLibfooO ==
    << "/", "u", "s", "r", "/", "l", "i", "b", "/", "l", "i", "b", "f", "o", "o", ".", "o" >>

Libfoo == << "l", "i", "b", "f", "o", "o" >>

ABC == << "a", "-", "b", ".", "c" >>

\* Every name of up to MaxNameLen of these characters, the linker's table
\* symbol and the names the specification gives as examples.
Names ==
    UNION { [ 1..n -> NameChars ] : n \in 0..MaxNameLen }
    \cup { GLOBAL_OFFSET_TABLE, UsrLibLibfooO, Libfoo, ABC }

\* A name is handed to the sanitizer.
InitSanitize ==
    /\ nodes = NewGraph.nodes
    /\ edges = NewGraph.edges
    /\ strings = NewGraph.strings
    /\ undefined = NewGraph.undefined
    /\ defined = NewGraph.defined
    /\ pc = "sanitize"
    /\ filename = -1
    /\ properties = <<>>
    /\ output = NoOutput
    /\ name \in Names
    /\ result = None
    /\ ninputs = 0
    /\ input = <<>>
    /\ events = <<>>
    /\ last = [ op |-> "new", file |-> -1, sym |-> -1, pre |-> Pre ]

\* The sanitizer returns.
Sanitize ==
    /\ pc = "sanitize"
    /\ pc' = "sanitized"
    /\ result' = mangle_as_valid_dot_name(name)
    /\ UNCHANGED << nodes, edges, strings, undefined, defined, filename, properties,
                    output, name, ninputs, input, events, last >>

NextSanitize == Sanitize

SpecSanitize == InitSanitize /\ [][NextSanitize]_vars

\* ------------------------------------------------------- reading the state

\* The canonical ids interned so far.
Ids == 0..(Len(strings) - 1)

\* File f has issued an accepted record of that kind for symbol s.
Issued(f, kind, s) == \E i \in DOMAIN events : events[i] = <<f, kind, s>>

\* Some file has issued an accepted defined record for symbol s.
Defines(s) == \E i \in DOMAIN events : events[i][2] = "D" /\ events[i][3] = s

\* B is the only file that has issued a defined record for symbol s.
OnlyProvider(B, s) ==
    /\ Issued(B, "D", s)
    /\ \A i \in DOMAIN events : events[i][2] = "D" /\ events[i][3] = s => events[i][1] = B

\* The edge (c, p) exists and carries symbol s.
Linked(c, p, s) == <<c, p>> \in DOMAIN edges /\ s \in Range(edges[<<c, p>>])

\* The edge labels have not been cleared by merge.
Labelled == last.op # "merge"

\* Every file opened so far has been ingested: parse_binary has returned.
AtFileBoundary == pc = "main"

\* ----------------------------------------------------------------- claims

\* C1: when file A has issued an undefined record for x and file B a defined
\* record for x (B being the one file that defines x), then once both files
\* are ingested the edge (A,B) exists and carries x, in either order.
C1_EdgeInEitherOrder ==
    AtFileBoundary =>
        \A A \in DOMAIN nodes, B \in DOMAIN nodes, x \in Ids :
            (A # B /\ Issued(A, "U", x) /\ OnlyProvider(B, x)) => Linked(A, B, x)

\* The position of the first defined record for x after position i, 0 if none.
FirstProviderAfter(i, x) ==
    LET J == { j \in DOMAIN events : j > i /\ events[j][2] = "D" /\ events[j][3] = x }
    IN IF J = {} THEN 0 ELSE CHOOSE j \in J : \A k \in J : j <= k

\* The undefined record at position i came before any defined record for its symbol.
QueuedFirst(i) ==
    /\ events[i][2] = "U"
    /\ \A j \in 1..(i - 1) : ~(events[j][2] = "D" /\ events[j][3] = events[i][3])

\* C2 as stated: A required x before B and C were ingested and both define x,
\* so once both are ingested the edges (A,B) and (A,C) both carry x.
C2_BothProvidersLinked ==
    AtFileBoundary =>
        \A i \in DOMAIN events : \A B \in DOMAIN nodes, C \in DOMAIN nodes :
            LET A == events[i][1]
                x == events[i][3]
            IN ( /\ QueuedFirst(i)
                 /\ A # B /\ A # C /\ B # C
                 /\ \A j \in 1..i : events[j][1] # B /\ events[j][1] # C
                 /\ Issued(B, "D", x) /\ Issued(C, "D", x) )
               => Linked(A, B, x) /\ Linked(A, C, x)

\* C2 amended: an undefined record for x from A that precedes every defined
\* record for x is resolved by the first file that then defines x: the edge
\* from A to that first provider exists and carries x.
C2_FirstProviderLinked ==
    Labelled =>
        \A i \in DOMAIN events :
            (QueuedFirst(i) /\ FirstProviderAfter(i, events[i][3]) # 0)
            => Linked(events[i][1], events[FirstProviderAfter(i, events[i][3])][1],
                      events[i][3])

\* C2 witness: A required x first, then B and C defined x in that order; the
\* edge (A,B) carries x and no edge (A,C) exists.
C2_Witness ==
    /\ AtFileBoundary
    /\ \E i \in DOMAIN events : \E j \in DOMAIN events : \E k \in DOMAIN events :
          LET A == events[i][1]
              B == events[j][1]
              C == events[k][1]
              x == events[i][3]
          IN /\ QueuedFirst(i) /\ FirstProviderAfter(i, x) = j /\ j < k
             /\ events[k][2] = "D" /\ events[k][3] = x
             /\ A # B /\ A # C /\ B # C
             /\ Linked(A, B, x)
             /\ <<A, C>> \notin DOMAIN edges

\* C3: no edge has the same file as consumer and provider.
C3_NoSelfLoop == \A e \in DOMAIN edges : e[1] # e[2]

\* C4: every symbol on an edge (c,p) was required by c and defined by p.
C4_EdgeSoundness ==
    \A e \in DOMAIN edges : \A s \in Range(edges[e]) :
        Issued(e[1], "U", s) /\ Issued(e[2], "D", s)

\* C5: an undefined record for s from A links A to every file that issued a
\* defined record for s before it.
C5_EveryEarlierProviderLinked ==
    Labelled =>
        \A i \in DOMAIN events : \A j \in 1..(i - 1) :
            (events[i][2] = "U" /\ events[j][2] = "D" /\ events[j][3] = events[i][3])
            => Linked(events[i][1], events[j][1], events[i][3])

\* The edges of a graph by name: consumer, provider and the bag of labels.
LabelledEdges(g) ==
    { [ consumer |-> resolve(g.strings, e[1]),
        provider |-> resolve(g.strings, e[2]),
        labels |-> { [ name |-> resolve(g.strings, s), n |-> Count(g.edges[e], s) ]
                     : s \in Range(g.edges[e]) } ]
      : e \in DOMAIN g.edges }

\* The canonical names a file defines.
DefinedNames(file) ==
    { mangle_as_valid_dot_name(file.exports[i]).v : i \in DOMAIN file.exports }

\* The files are distinct and no symbol is defined by two of them.
SingleProviders(files) ==
    \A i \in DOMAIN files : \A j \in DOMAIN files :
        i # j => /\ files[i].path # files[j].path
                 /\ DefinedNames(files[i]) \cap DefinedNames(files[j]) = {}

\* C6: for a set of files where every symbol has at most one defining file,
\* every ingestion order ends with the same edges and labels.
C6_OrderIndependent ==
    (AtFileBoundary /\ SingleProviders(input)) =>
        \A p \in Permutations(DOMAIN input) :
            LabelledEdges(parse_files([ g |-> NewGraph, panicked |-> FALSE ],
                                      [ i \in DOMAIN input |-> input[p[i]] ]).g)
            = LabelledEdges(G)

\* C7: a symbol some file has defined has no entry in the undefined map.
C7_DefinedNeverAwaited == \A s \in Ids : Defines(s) => s \notin DOMAIN undefined

\* C8: when A requires x and y and B (alone) defines both, the one edge (A,B)
\* carries both x and y once both files are ingested, in either order.
C8_BothSymbolsOnEdge ==
    AtFileBoundary =>
        \A A \in DOMAIN nodes, B \in DOMAIN nodes : \A x \in Ids, y \in Ids :
            ( /\ A # B /\ x # y
              /\ Issued(A, "U", x) /\ Issued(A, "U", y)
              /\ OnlyProvider(B, x) /\ OnlyProvider(B, y) )
            => Linked(A, B, x) /\ Linked(A, B, y)

\* Some file other than f issued a defined record for symbol s before the
\* last record.
EarlierProvider(f, s) ==
    \E i \in 1..(Len(events) - 1) :
        events[i][2] = "D" /\ events[i][3] = s /\ events[i][1] # f

\* C9: a defined record for symbol s from file C, processed after an earlier
\* file has issued a defined record for s, creates no edge and extends the
\* symbols of none.
C9_LateProviderNoEdge ==
    ( /\ last.op = "exported"
      /\ last.sym # -1
      /\ EarlierProvider(last.file, last.sym) )
    => edges = last.pre.g.edges

\* C10: merge leaves the nodes and the edge keys as they were and every edge
\* with no symbol.
C10_MergeKeepsConnectivity ==
    last.op = "merge" =>
        /\ nodes = last.pre.g.nodes
        /\ DOMAIN edges = DOMAIN last.pre.g.edges
        /\ \A e \in DOMAIN edges : edges[e] = <<>>

\* C10 witness: merge has run on a graph that had labelled edges.
C10_Witness ==
    /\ last.op = "merge"
    /\ DOMAIN edges # {}
    /\ \E e \in DOMAIN last.pre.g.edges : Len(last.pre.g.edges[e]) >= 2

\* C11: merging a merged graph changes nothing: merge applied twice to the
\* graph of any reachable state gives what merge applied once gives, and the
\* graph main has merged is left as it is by another merge.
C11_MergeIdempotent ==
    /\ merge(merge(G)) = merge(G)
    /\ last.op = "merge" => merge(G) = G

\* C11 witness: merge has run and changed the graph, which had an edge with
\* two symbols.
C11_Witness ==
    /\ last.op = "merge"
    /\ G # last.pre.g
    /\ \E e \in DOMAIN last.pre.g.edges : Len(last.pre.g.edges[e]) >= 2

\* The edge lines written for the pair e.
LinesFor(e) == { l \in DOMAIN output.edges : l.n1 = e[1] /\ l.n2 = e[2] }

\* The number of lines of a bag that are in the set S.
RECURSIVE Total(_, _)
Total(bag, S) ==
    IF S = {} THEN 0
    ELSE LET l == CHOOSE l \in S : TRUE IN bag[l] + Total(bag, S \ {l})

\* C12: the output holds, for an edge without symbols, one line and that line
\* has no label; for an edge with N symbol entries, N lines, all labelled,
\* each symbol's name as often as the symbol is on the edge; no line for a
\* pair that is no edge; and so after merge one line per edge.
C12_EdgeLines ==
    pc = "done" =>
        /\ \A l \in DOMAIN output.edges : <<l.n1, l.n2>> \in DOMAIN edges
        /\ \A e \in DOMAIN edges :
              IF edges[e] = <<>>
              THEN /\ Total(output.edges, LinesFor(e)) = 1
                   /\ \A l \in LinesFor(e) : ~l.labelled
              ELSE /\ Total(output.edges, LinesFor(e)) = Len(edges[e])
                   /\ \A l \in LinesFor(e) :
                         /\ l.labelled
                         /\ \E s \in Range(edges[e]) :
                               /\ l.label = strings[s + 1]
                               /\ output.edges[l] = Count(edges[e], s)
        /\ last.op = "merge" =>
              Total(output.edges, DOMAIN output.edges) = Cardinality(DOMAIN edges)

\* C12 witness: the graph has been written without merge and an edge carries
\* the same symbol twice.
C12_Witness ==
    /\ pc = "done"
    /\ last.op # "merge"
    /\ \E e \in DOMAIN edges : \E s \in Range(edges[e]) : Count(edges[e], s) >= 2

\* The bytes of the symbol record the last step decoded (last.op is
\* "exported" or "imported").
LastRecord ==
    LET file == input[Len(input)]
    IN IF last.op = "exported"
       THEN file.exports[Len(file.exports)]
       ELSE file.imports[Len(file.imports)]

\* The last step decoded a symbol record.
RecordStep == last.op \in { "exported", "imported" }

\* C13: a symbol record whose name is valid text and is rejected by the
\* sanitizer changes nothing: nodes, edges, string table, both maps and the
\* defined-symbol list of the issuing file are as before.
C13_RejectedRecordNoEffect ==
    ( /\ RecordStep
      /\ from_utf8(LastRecord).some
      /\ ~mangle_as_valid_dot_name(LastRecord).some )
    => /\ G = last.pre.g
       /\ properties = last.pre.properties

\* C13 witness: a rejected record has been decoded from a file that had
\* already issued an accepted record.
C13_Witness ==
    /\ RecordStep
    /\ from_utf8(LastRecord).some
    /\ ~mangle_as_valid_dot_name(LastRecord).some
    /\ \E i \in DOMAIN events : events[i][1] = last.file

\* C14: a symbol record whose name is not valid text is skipped: the graph is
\* unchanged and the run goes on.
C14_InvalidTextSkipped ==
    (RecordStep /\ ~from_utf8(LastRecord).some)
    => /\ pc # "panicked"
       /\ G = last.pre.g

\* C15: a file that cannot be decoded leaves nodes, edges, string table and
\* both maps unchanged, and main goes on to the next file.
C15_UndecodableNoEffect ==
    last.op = "undecodable" =>
        /\ G = last.pre.g
        /\ pc = "main"

\* C15 witness: an undecodable file has been skipped after a file was ingested.
C15_Witness ==
    /\ last.op = "undecodable"
    /\ DOMAIN nodes # {}
    /\ input[Len(input)].status = "undecodable"

\* C16: a path that cannot be opened ends the run there: it is the last input,
\* the graph is as it was, merge has not run and nothing is written.
C16_UnreadableAborts ==
    \A i \in DOMAIN input :
        input[i].status = "unreadable" =>
            /\ i = Len(input)
            /\ pc = "panicked"
            /\ last.op = "unreadable"
            /\ G = last.pre.g
            /\ output = NoOutput

\* C16 witness: the run has ended on an unreadable path after a file was ingested.
C16_Witness ==
    /\ pc = "panicked"
    /\ last.op = "unreadable"
    /\ DOMAIN nodes # {}

\* C20: when no file is being parsed, both endpoints of every edge have a node.
C20_EdgeEndpointsAreNodes ==
    pc \in { "main", "write", "done" } =>
        \A e \in DOMAIN edges : e[1] \in DOMAIN nodes /\ e[2] \in DOMAIN nodes

\* C20 witness: at a file boundary an edge links two files, and an undecodable
\* or name-rejected file was among the inputs.
C20_Witness ==
    /\ pc = "main"
    /\ \E e \in DOMAIN edges : e[1] # e[2]
    /\ \E i \in DOMAIN input :
          \/ input[i].status = "undecodable"
          \/ ~mangle_as_valid_dot_name(input[i].path).some

\* The rejection set as the claim states it, read off the raw name.
RejectedName(v) ==
    \/ v = <<>>
    \/ v = GLOBAL_OFFSET_TABLE
    \/ Len(v) >= 3 /\ v[1] = "." /\ v[2] = "L" /\ v[3] = "C"
    \/ Len(v) >= 1 /\ v[1] = "_"

\* C17: the sanitizer rejects "", "_GLOBAL_OFFSET_TABLE_", every name that
\* starts with ".LC" and every name that starts with '_', and accepts every
\* other name; what follows a '/' plays no part in the decision.
C17_RejectionSet ==
    pc = "sanitized" => (result.some <=> ~RejectedName(name))

\* C17 witness: a name whose basename starts with '_' and whose raw form does
\* not has been accepted.
C17_Witness ==
    /\ pc = "sanitized"
    /\ result.some
    /\ \E i \in 1..(Len(name) - 1) : name[i] = "/" /\ name[i + 1] = "_"
    /\ Len(result.v) >= 1 /\ result.v[1] = "_"

\* The name without a trailing ".o".
WithoutDotO(v) ==
    IF Len(v) >= 2 /\ v[Len(v) - 1] = "." /\ v[Len(v)] = "o"
    THEN SubSeq(v, 1, Len(v) - 2)
    ELSE v

\* The part of the name after its last '/'.
RECURSIVE AfterLastSlash(_)
AfterLastSlash(v) ==
    IF \E i \in 1..Len(v) : v[i] = "/"
    THEN AfterLastSlash(SubSeq(v, (CHOOSE i \in 1..Len(v) :
                                      v[i] = "/" /\ \A j \in 1..(i - 1) : v[j] # "/") + 1,
                               Len(v)))
    ELSE v

\* The name with every '-' and every '.' replaced by '_'.
Underscored(v) == [ i \in 1..Len(v) |-> IF v[i] \in { "-", "." } THEN "_" ELSE v[i] ]

\* C18: the canonical string of an accepted name is the name without a
\* trailing ".o", cut to the part after the last '/', with '-' and '.' replaced
\* by '_'; "/usr/lib/libfoo.o" and "libfoo" both give "libfoo" and "a-b.c"
\* gives "a_b_c".
C18_CanonicalString ==
    (pc = "sanitized" /\ result.some) =>
        /\ result.v = Underscored(AfterLastSlash(WithoutDotO(name)))
        /\ name \in { UsrLibLibfooO, Libfoo } => result.v = Libfoo
        /\ name = ABC => result.v = << "a", "_", "b", "_", "c" >>

\* C18 witness: a name with a directory part, a '-' and a trailing ".o" has
\* been sanitized.
C18_Witness ==
    /\ pc = "sanitized"
    /\ result.some
    /\ Len(name) >= 2 /\ name[Len(name) - 1] = "." /\ name[Len(name)] = "o"
    /\ \E i \in 1..Len(name) : name[i] = "/"
    /\ \E i \in 1..Len(result.v) : result.v[i] = "_"

\* C19: a symbol recorded on the node of a file stays on that node in every
\* later state, also when a file of the same canonical name is read again.
C19_NodeSymbolsKept ==
    [][\A f \in DOMAIN nodes :
           /\ f \in DOMAIN nodes'
           /\ Range(nodes[f]) \subseteq Range(nodes'[f])]_vars

====
